---- MODULE Spec2Model ----
(***************************************************************************)
(* FIVLO backend: the daily task-completion reward gate                    *)
(* (TaskService.checkDailyTaskCompletion and PATCH /:taskId/complete),     *)
(* the reminder completion route, the analysis service (monthly and weekly *)
(* statistics), the task service (tasks, categories, growth albums), the   *)
(* CoinTransaction model, the pomodoro router and the AI service.          *)
(*                                                                         *)
(* Time is counted in half days since the UTC epoch: an instant t lies in  *)
(* UTC day t \div UnitsPerDay and in local day (t + tz) \div UnitsPerDay.  *)
(***************************************************************************)
EXTENDS Integers, Sequences, FiniteSets, TLC

\* ---------------------------------------------------------------- bounds
UnitsPerDay == 2
StartTime == UnitsPerDay
MaxTime == 4
InitCoins == 0

Procs == {"p1", "p2"}
TaskIds == {"t1", "t2"}
TzOffsets == {0, 1}
StoredUser == "u1"
UserIds == {"u1", "ghost"}
TaskDates == {3, 4}

\* ----------------------------------------------------------- the state
VARIABLES
    now,            \* the wall clock (new Date())
    tz,             \* the server's local-time offset
    isPremium,      \* user.isPremium
    coins,          \* user.coins as stored
    dailyRewards,   \* user.dailyRewards as stored
    tasks,          \* the Task collection
    pc,             \* where each request stands
    req,            \* what each request is
    loaded,         \* the user document a request holds in memory
    today,          \* `today` of checkDailyTaskCompletion
    ret,            \* what the call returned / the route answered
    reminderDone,   \* reminder.isCompleted as stored
    reminderCoins,  \* coins granted by completeReminder
    rpc,            \* where each reminder request stands
    rres,           \* what completeReminder returned to it
    rnote,          \* what became of the coin notification
    rresp,          \* the response it sent
    sessions,       \* the PomodoroSession collection
    statsRet,       \* the outcome of the last analysis operation
    store,          \* the Task collection of the task service, with its owners
    albums,         \* the number of GrowthAlbum documents of each task
    catStats,       \* how often each category has written its statistics
    tret,           \* the outcome of the last task service operation
    tx,             \* the CoinTransaction documents in memory
    txStored,       \* the CoinTransaction collection
    txRet,          \* the outcome of the last CoinTransaction operation
    psessions,      \* the status of each pomodoro session
    pret,           \* the answer to the last pomodoro request
    cats,           \* the Category collection of one user, in order of insertion
    cpc,            \* where each createCategory call stands
    creq,           \* the name each createCategory call was given
    cord,           \* nextOrder of each createCategory call
    cret,           \* what each createCategory call handed back
    aiState,        \* the AIService instance: isInitialized
    aiRet,          \* what generateRoutineRecommendation handed back
    weeklyRet       \* weeklyData and bestDay of the last getWeeklyStats

rewardVars == <<now, tz, isPremium, coins, dailyRewards, tasks, pc, req, loaded, today, ret>>
reminderVars == <<reminderDone, reminderCoins, rpc, rres, rnote, rresp>>
statsVars == <<sessions, statsRet>>
taskVars == <<store, albums, catStats, tret>>
coinTxVars == <<tx, txStored, txRet>>
pomodoroVars == <<psessions, pret>>
categoryVars == <<cats, cpc, creq, cord, cret>>
aiVars == <<aiState, aiRet>>
weeklyVars == <<weeklyRet>>
lateVars == <<categoryVars, aiVars, weeklyVars>>
crudVars == <<taskVars, coinTxVars, pomodoroVars, lateVars>>
vars == <<rewardVars, reminderVars, statsVars, crudVars>>

\* ------------------------------------------------------------- helpers
NoTime == 0

UtcDay(t) == t \div UnitsPerDay

LocalDay(t, off) == (t + off) \div UnitsPerDay

\* today.toISOString().split('T')[0]
ToISODate(t) == UtcDay(t)

NullUser == [found |-> FALSE, isPremium |-> FALSE, coins |-> 0, dailyRewards |-> <<>>]

\* User.findById(userId)
FindById(userId) ==
    IF userId = StoredUser
    THEN [found |-> TRUE, isPremium |-> isPremium, coins |-> coins,
          dailyRewards |-> dailyRewards]
    ELSE NullUser

\* if (!user || !user.isPremium) return null
NotEligibleMutant(user) == ~user.found
NotEligible(user) == ~user.found \/ ~user.isPremium

\* Task.find({ userId, date: { $gte: startOfDay, $lte: endOfDay } })
TodayTasks(t) ==
    {id \in TaskIds : tasks[id].exists /\ LocalDay(tasks[id].date, tz) = LocalDay(t, tz)}

\* todayTasks.length === 0
NoTasksTodayMutant(ts) == FALSE
NoTasksToday(ts) == ts = {}

\* todayTasks.every(task => task.isCompleted)
AllCompletedMutant(ts) == \E id \in ts : tasks[id].isCompleted
AllCompleted(ts) == \A id \in ts : tasks[id].isCompleted

\* user.dailyRewards.some(reward => same ISO date && type === 'task_completion')
AlreadyRewardedMutant(user, t) == FALSE
AlreadyRewarded(user, t) ==
    \E i \in 1..Len(user.dailyRewards) :
        /\ ToISODate(user.dailyRewards[i].date) = ToISODate(t)
        /\ user.dailyRewards[i].type = "task_completion"

RewardAmountMutant == 1 + 1
RewardAmount == 1

RewardEntry(t) == [type |-> "task_completion", amount |-> RewardAmount, date |-> t]

NoRet == [kind |-> "none", totalCoins |-> 0, status |-> 0]
NoReq == [kind |-> "none", userId |-> "none", taskId |-> "none", isCompleted |-> FALSE,
          completedAt |-> NoTime, toggled |-> FALSE]

\* const userId = req.user.userId: the request of the authenticated user, with
\* no task document in hand
RouteReq == [NoReq EXCEPT !.kind = "route", !.userId = StoredUser]

\* what a call hands back, and the HTTP status the route makes of it
Answer(p, kind, total) ==
    [kind |-> kind, totalCoins |-> total,
     status |-> IF req[p].kind = "route" THEN (IF kind = "error" THEN 500 ELSE 200) ELSE 0]

\* catch (error) { logger.error(...); throw error; }
SaveFailureKindMutant == "null"
SaveFailureKind == "error"

\* ---------------------------------------------- the reminder completion route
ReminderIds == {"r1", "r2"}

NoResult == [returned |-> FALSE, alreadyCompleted |-> FALSE, coinReward |-> "null"]
NoResponse == [status |-> 0, coinReward |-> "null"]

\* reminderService.completeReminder: what it may hand back for a reminder
CoinRewardsOf(alreadyCompleted) ==
    IF alreadyCompleted THEN {"null"} ELSE {"null", "not_rewarded", "rewarded"}

\* reminderService.completeReminder: the reminder is stored as completed
CompletedReminders(r) == [reminderDone EXCEPT ![r] = TRUE]

\* reminderService.completeReminder: the coins it has granted so far
GrantedCoins(reward) == IF reward = "rewarded" THEN reminderCoins + 1 ELSE reminderCoins

\* if (result.coinReward && result.coinReward.rewarded)
ShouldNotify(result) == result.coinReward = "rewarded"

\* user && notificationService.isNotificationEnabled(user)
WillSend(found) == found = "enabled"

\* catch (notificationError) { logger.warn(...) } and then res.status(200)
StatusAfterNotifyMutant(outcome) == IF outcome \in {"throws", "send_failed"} THEN 500 ELSE 200
StatusAfterNotify(outcome) == 200

\* const statusCode = error.message.includes('찾을 수 없습니다') ? 404 : 500
StatusOfError(err) == IF err = "not_found" THEN 404 ELSE 500

\* ------------------------------------------------------ the analysis service
MaxSessions == 2
Goals == {"g1", "g2"}
SessionDays == {1, 8}
QueryDays == {1, 8, 40}
DaysPerWeek == 7
DaysPerMonth == 30
SessionMinutes == 25

Session == [goal : Goals, day : SessionDays, completed : BOOLEAN]

NoStats == [op |-> "none", outcome |-> "none", matched |-> 0, totalSessions |-> 0,
            completedSessions |-> 0, totalFocusTime |-> 0, completionRate |-> 0,
            averageSessionLength |-> 0]

\* statisticsHelper.getDateRange(type, date) and the find on startTime
InWindow(type, s, d) ==
    CASE type = "daily" -> s.day = d
      [] type = "weekly" -> s.day \div DaysPerWeek = d \div DaysPerWeek
      [] OTHER -> s.day \div DaysPerMonth = d \div DaysPerMonth

\* statisticsHelper.calculatePeriodStats(sessions)
CalculatePeriodStats(ss) ==
    LET total == Cardinality(ss)
        done == Cardinality({s \in ss : s.completed})
        focus == done * SessionMinutes
    IN [totalSessions |-> total, completedSessions |-> done, totalFocusTime |-> focus,
        completionRate |-> IF total = 0 THEN 0 ELSE (done * 100) \div total,
        averageSessionLength |-> IF done = 0 THEN 0 ELSE focus \div done]

\* the statistics object an operation returns
StatsOf(op, ss) ==
    LET st == CalculatePeriodStats(ss)
    IN [op |-> op, outcome |-> "stats", matched |-> Cardinality(ss),
        totalSessions |-> st.totalSessions, completedSessions |-> st.completedSessions,
        totalFocusTime |-> st.totalFocusTime, completionRate |-> st.completionRate,
        averageSessionLength |-> st.averageSessionLength]

\* an operation that ends without a statistics object
NoStatsOf(op, outcome, ss) ==
    [NoStats EXCEPT !.op = op, !.outcome = outcome, !.matched = Cardinality(ss)]

\* if (goalSessions.length === 0) throw new Error('해당 목표에 대한 데이터를 찾을 수 없습니다.')
DDayOfNoData(ss) == NoStatsOf("getDDayStats", "throws", ss)

\* if (sessions.length === 0) return { success: false, message: ... }
RecommendationOfNoData(ss) == NoStatsOf("generateAIRecommendation", "failure", ss)

\* ---------------------------------------------------------- the task service
TaskKeys == {1, 2}
AlbumCounts == {0, 1}
TaskDays == {1, 2}
RepeatEnds == {NoTime, 2}
TaskUsers == {"A", "B"}
CategoryIds == {"cA", "cB"}
CategoryInputs == CategoryIds \cup {"cX"}
RepeatTypes == {"daily", "weekly"}

\* Category documents: each user owns one
CategoryOwner(c) == IF c = "cA" THEN "A" ELSE "B"

NoTask == [state |-> "none", userId |-> "none", template |-> 0, date |-> 0,
           isCompleted |-> FALSE, completedAt |-> FALSE, hasGrowthAlbum |-> FALSE,
           categoryId |-> "none"]

NoTaskRet == [op |-> "none", userId |-> "none", taskId |-> 0, outcome |-> "none",
              categoryId |-> "none", isRepeating |-> FALSE, repeatEndDate |-> NoTime,
              growthAlbumData |-> FALSE]

\* what an operation hands back: a value ("ok") or the error it throws
TaskRet(op, userId, taskId, outcome) ==
    [NoTaskRet EXCEPT !.op = op, !.userId = userId, !.taskId = taskId, !.outcome = outcome]

\* Task.findOne({ _id: taskId, userId })
FindOwnTaskMutant(userId, taskId) == store[taskId].state = "stored"
FindOwnTask(userId, taskId) ==
    store[taskId].state = "stored" /\ store[taskId].userId = userId

\* Category.findOne({ _id: categoryId, userId })
FindOwnCategoryMutant(userId, categoryId) == TRUE
FindOwnCategory(userId, categoryId) ==
    categoryId \in CategoryIds /\ CategoryOwner(categoryId) = userId

\* new Task({...}): the _id of the next document
NextKey == Cardinality({k \in TaskKeys : store[k].state # "none"}) + 1

\* the interval between two instances of a recurrence
RepeatStep(repeatType) ==
    CASE repeatType = "daily" -> 1
      [] repeatType = "weekly" -> DaysPerWeek
      [] OTHER -> DaysPerMonth

\* task.createRepeatingTasks(): the dates after the task's own, up to repeatEndDate
RepeatDates(repeatType, date, repeatEndDate) ==
    {d \in (date + 1)..repeatEndDate : (d - date) % RepeatStep(repeatType) = 0}

\* if (isRepeating && repeatEndDate) await task.createRepeatingTasks()
InstanceDates(isRepeating, repeatType, date, repeatEndDate) ==
    IF isRepeating /\ repeatEndDate # NoTime
    THEN RepeatDates(repeatType, date, repeatEndDate)
    ELSE {}

\* category.updateStats(): the statistics of the category are written once more
UpdateStats(categoryId) == [catStats EXCEPT ![categoryId] = @ + 1]

\* updateData of updateTask: the request body, one field at a time
NoUpdate == [date |-> 0, categoryId |-> "undefined", isCompleted |-> "undefined",
             userId |-> "undefined", hasGrowthAlbum |-> "undefined"]

UpdateDatas ==
    {[NoUpdate EXCEPT !.date = d] : d \in TaskDays}
    \cup {[NoUpdate EXCEPT !.categoryId = c] : c \in CategoryInputs}
    \cup {[NoUpdate EXCEPT !.isCompleted = b] : b \in {"true", "false"}}
    \cup {[NoUpdate EXCEPT !.userId = u] : u \in TaskUsers}
    \cup {[NoUpdate EXCEPT !.hasGrowthAlbum = b] : b \in {"true", "false"}}

\* Object.keys(updateData).forEach(key => { task[key] = updateData[key] })
ApplyUpdate(task, u) ==
    [task EXCEPT
        !.date = IF u.date = 0 THEN @ ELSE u.date,
        !.categoryId = IF u.categoryId = "undefined" THEN @ ELSE u.categoryId,
        !.isCompleted = IF u.isCompleted = "undefined" THEN @ ELSE u.isCompleted = "true",
        !.userId = IF u.userId = "undefined" THEN @ ELSE u.userId,
        !.hasGrowthAlbum = IF u.hasGrowthAlbum = "undefined" THEN @
                           ELSE u.hasGrowthAlbum = "true"]

\* updateData.categoryId && updateData.categoryId !== task.categoryId.toString()
CategoryChanges(task, u) ==
    u.categoryId # "undefined" /\ u.categoryId # task.categoryId

\* the GrowthAlbum documents stored so far
RECURSIVE AlbumsUpTo(_)
AlbumsUpTo(k) == IF k = 0 THEN 0 ELSE albums[k] + AlbumsUpTo(k - 1)

AlbumCount == AlbumsUpTo(Cardinality(TaskKeys))

\* ------------------------------------------------------ CoinTransaction
TxIds == {"x1", "x2"}
TxAmounts == {-1, 0, 1}
TxBalances == {-1, 0}
TxStatuses == {"pending", "completed", "failed", "cancelled"}

\* a document: its state is "new" until a save has stored it; cancelNotes counts
\* the ' (취소됨: ...)' suffixes of its description
NoTx == [state |-> "none", amount |-> 0, balanceAfter |-> 0, status |-> "none",
         cancelNotes |-> 0]

NoTxRet == [op |-> "none", id |-> "none", outcome |-> "none", error |-> "none"]

\* what a method hands back: "ok", a synchronous throw or a rejected save
TxRet(op, id, outcome, error) == [op |-> op, id |-> id, outcome |-> outcome, error |-> error]

\* balanceAfter: { type: Number, required: true, min: 0 }; amount: { required: true }
SchemaValid(doc) == doc.balanceAfter >= 0

\* coinTransactionSchema.pre('save'): the error it passes to next, if any
PreSaveError(doc) ==
    IF doc.balanceAfter < 0 THEN "INSUFFICIENT_BALANCE"
    ELSE IF doc.amount = 0 THEN "zero_amount"
    ELSE "none"

\* document.save(): the schema is validated first, then the pre('save') hooks run
SaveError(doc) == IF ~SchemaValid(doc) THEN "ValidationError" ELSE PreSaveError(doc)

\* if (this.status !== 'pending') throw
NotPendingMutant(doc) == doc.status \notin {"pending", "completed"}
NotPending(doc) == doc.status # "pending"

\* ------------------------------------------------------ the pomodoro router
PSessionIds == {"s1", "s2", "s3"}

NoPRet == [route |-> "none", sessionId |-> "none", before |-> "none", status |-> 0]

\* the answer to a request: the session's status before it, and the HTTP status
PRet(route, i, status) ==
    [route |-> route, sessionId |-> i, before |-> psessions[i], status |-> status]

\* the POST routes of the router: router.post('/sessions/:sessionId/start', ...)
\* stands inside the block comment that opens above it and closes only before
\* the complete route, so it is never registered
RegisteredRoutes ==
    {"POST /sessions", "POST /sessions/:sessionId/complete", "POST /quick-start"}

\* a request to a path the router has no handler for
NoHandlerStatus == 404

\* pomodoroService.startSession: a created session starts, any other fails
CanStart(status) == status = "created"

\* pomodoroService.completeSession: a started session completes, any other fails
CanComplete(status) == status = "started"

\* ------------------------------------------------------ createCategory
MaxCategories == 3
CategoryNames == {"a", " a", "b"}

\* name.trim()
Trim(name) == IF name = " a" THEN "a" ELSE name

\* Category.findOne({ userId, name: name.trim(), isActive: true })
ExistingCategory(name) ==
    \E i \in 1..Len(cats) : cats[i].name = Trim(name) /\ cats[i].isActive

\* Category.findOne({ userId }).sort({ order: -1 }); (lastCategory?.order || 0) + 1
NextOrder ==
    IF cats = <<>> THEN 1
    ELSE (CHOOSE m \in {cats[i].order : i \in 1..Len(cats)} :
              \A i \in 1..Len(cats) : cats[i].order <= m) + 1

\* the createCategory calls that have not saved or failed yet
InFlight == Cardinality({p \in Procs : cpc[p] \in {"findName", "findLast", "save"}})

\* ------------------------------------------------------ AIService
TotalSessionsValues == {0, 5, 15, 30}
CompletionRates == {0, 40, 60, 70, 80}
TotalDaysValues == {0, 3, 7, 14}

\* userData with stats and patterns
UserDatas ==
    [totalSessions : TotalSessionsValues, completionRate : CompletionRates,
     totalDays : TotalDaysValues, optimalTime : BOOLEAN]

\* what openai.chat.completions.create may do: resolve with a message, reject,
\* or resolve with no choices (response.choices[0].message then throws)
OpenAiCalls == {"ok", "rejects", "malformed"}

NoAiRet == [outcome |-> "none", success |-> FALSE, type |-> "none", text |-> "none",
            note |-> "none", confidence |-> 0, initialized |-> FALSE, call |-> "none"]

\* calculateConfidence(stats)
CalculateConfidence(stats) ==
    LET bySessions == IF stats.totalSessions >= 30 THEN 40
                      ELSE IF stats.totalSessions >= 15 THEN 25
                      ELSE IF stats.totalSessions >= 5 THEN 15 ELSE 0
        byRate == IF stats.completionRate >= 80 THEN 30
                  ELSE IF stats.completionRate >= 60 THEN 20
                  ELSE IF stats.completionRate >= 40 THEN 10 ELSE 0
        byDays == IF stats.totalDays >= 14 THEN 30
                  ELSE IF stats.totalDays >= 7 THEN 20
                  ELSE IF stats.totalDays >= 3 THEN 10 ELSE 0
        sum == bySessions + byRate + byDays
    IN IF sum < 100 THEN sum ELSE 100

\* generateFallbackRecommendation(userData)
GenerateFallbackRecommendation(userData) ==
    [NoAiRet EXCEPT
        !.outcome = "returned", !.success = TRUE, !.type = "rule_based",
        !.text = IF userData.totalSessions < 5 THEN "habit"
                 ELSE IF userData.optimalTime THEN "personal_optimal_time"
                 ELSE "personal_no_pattern",
        !.note = IF userData.completionRate < 70 THEN "low_rate" ELSE "good_rate",
        !.confidence = CalculateConfidence(userData)]

\* the value returned after the call resolved with a message
AiGenerated(userData) ==
    [NoAiRet EXCEPT
        !.outcome = "returned", !.success = TRUE, !.type = "ai_generated",
        !.text = "ai", !.confidence = CalculateConfidence(userData)]

\* catch (error) { logger.error(...); return this.generateFallbackRecommendation(userData) }
OnFailureMutant(userData) == [NoAiRet EXCEPT !.outcome = "rejected"]
OnFailure(userData) == GenerateFallbackRecommendation(userData)

\* ------------------------------------------------------ getWeeklyStats
MinuteValues == {0, 25, 50}

\* weeklyData: one entry per day of the week
WeekDays == 1..DaysPerWeek

NoWeekly == [weeklyData |-> <<>>, bestDay |-> [day |-> 0, minutes |-> 0]]

\* statisticsHelper.generateWeeklyData(sessions, start): one bucket per day of
\* the week, in order, with the focus minutes of that day
GenerateWeeklyData(minutes) == [d \in WeekDays |-> [day |-> d, minutes |-> minutes[d]]]

\* current.minutes > best.minutes
BetterMutant(current, best) == current.minutes >= best.minutes
Better(current, best) == current.minutes > best.minutes

\* weeklyData.reduce((best, current) => ... ? current : best, weeklyData[0])
RECURSIVE ReduceBest(_, _, _)
ReduceBest(data, i, best) ==
    IF i > Len(data) THEN best
    ELSE ReduceBest(data, i + 1, IF Better(data[i], best) THEN data[i] ELSE best)

BestDay(data) == ReduceBest(data, 1, data[1])

\* ------------------------------------------------------------------ Init
Init ==
    /\ now = StartTime
    /\ tz \in TzOffsets
    /\ isPremium \in BOOLEAN
    /\ coins = InitCoins
    /\ dailyRewards = <<>>
    /\ tasks \in [TaskIds -> {[exists |-> e, date |-> d, isCompleted |-> FALSE,
                               completedAt |-> NoTime] :
                              e \in BOOLEAN, d \in TaskDates}]
    /\ \A id \in TaskIds : ~tasks[id].exists => tasks[id].date = 3
    /\ pc = [p \in Procs |-> "idle"]
    /\ req = [p \in Procs |-> NoReq]
    /\ loaded = [p \in Procs |-> NullUser]
    /\ today = [p \in Procs |-> NoTime]
    /\ ret = [p \in Procs |-> NoRet]
    /\ reminderDone = [r \in ReminderIds |-> FALSE]
    /\ reminderCoins = 0
    /\ rpc = [p \in Procs |-> "idle"]
    /\ rres = [p \in Procs |-> NoResult]
    /\ rnote = [p \in Procs |-> "none"]
    /\ rresp = [p \in Procs |-> NoResponse]
    /\ sessions = {}
    /\ statsRet = NoStats
    /\ store = [k \in TaskKeys |-> NoTask]
    /\ albums = [k \in TaskKeys |-> 0]
    /\ catStats = [c \in CategoryIds |-> 0]
    /\ tret = NoTaskRet
    /\ tx = [i \in TxIds |-> NoTx]
    /\ txStored = [i \in TxIds |-> NoTx]
    /\ txRet = NoTxRet
    /\ psessions = [i \in PSessionIds |-> "none"]
    /\ pret = NoPRet
    /\ cats = <<>>
    /\ cpc = [p \in Procs |-> "idle"]
    /\ creq = [p \in Procs |-> "none"]
    /\ cord = [p \in Procs |-> 0]
    /\ cret = [p \in Procs |-> "none"]
    /\ aiState = "unconstructed"
    /\ aiRet = NoAiRet
    /\ weeklyRet = NoWeekly

\* --------------------------------------------------------------- actions
Tick ==
    /\ now < MaxTime
    /\ now' = now + 1
    /\ UNCHANGED <<tz, isPremium, coins, dailyRewards, tasks, pc, req, loaded, today, ret>>
    /\ UNCHANGED <<reminderVars, statsVars, crudVars>>

\* a direct call of taskService.checkDailyTaskCompletion(userId)
CallCheck(p, userId) ==
    /\ pc[p] = "idle"
    /\ pc' = [pc EXCEPT ![p] = "findUser"]
    /\ req' = [req EXCEPT ![p] = [NoReq EXCEPT !.kind = "service", !.userId = userId]]
    /\ UNCHANGED <<now, tz, isPremium, coins, dailyRewards, tasks, loaded, today, ret>>
    /\ UNCHANGED <<reminderVars, statsVars, crudVars>>

\* task.isCompleted = isCompleted !== undefined ? isCompleted : !task.isCompleted
ToggledValue(task, isCompleted) ==
    IF isCompleted = "undefined" THEN ~task.isCompleted ELSE isCompleted = "true"

\* toggleTaskCompletion: the task after the save
Toggled(task, isCompleted) ==
    [task EXCEPT !.isCompleted = ToggledValue(task, isCompleted),
                 !.completedAt = IF ToggledValue(task, isCompleted) THEN now ELSE NoTime]

\* PATCH /:taskId/complete: toggleTaskCompletion finds the task of the user and
\* sets isCompleted and completedAt on the document it holds
PatchComplete(p, taskId, isCompleted) ==
    /\ pc[p] = "idle"
    /\ IF tasks[taskId].exists
       THEN /\ req' = [req EXCEPT ![p] =
                          [kind |-> "route", userId |-> StoredUser, taskId |-> taskId,
                           isCompleted |-> Toggled(tasks[taskId], isCompleted).isCompleted,
                           completedAt |-> Toggled(tasks[taskId], isCompleted).completedAt,
                           toggled |-> FALSE]]
            /\ pc' = [pc EXCEPT ![p] = "toggleSave"]
            /\ ret' = ret
       ELSE /\ req' = [req EXCEPT ![p] = RouteReq]
            /\ pc' = [pc EXCEPT ![p] = "returned"]
            /\ ret' = [ret EXCEPT ![p] = [kind |-> "error", totalCoins |-> 0, status |-> 500]]
    /\ UNCHANGED <<now, tz, isPremium, coins, dailyRewards, tasks, loaded, today>>
    /\ UNCHANGED <<reminderVars, statsVars, crudVars>>

\* the completion state a task document stores
CompletionState(task) == <<task.isCompleted, task.completedAt>>

\* await task.save() of toggleTaskCompletion: the two changed paths are stored.
\* The request keeps no document afterwards; toggled records whether the save
\* left the task with a completion state other than the one it had
ToggleSave(p) ==
    /\ pc[p] = "toggleSave"
    /\ tasks' = [tasks EXCEPT ![req[p].taskId].isCompleted = req[p].isCompleted,
                              ![req[p].taskId].completedAt = req[p].completedAt]
    /\ req' = [req EXCEPT ![p] =
                  [RouteReq EXCEPT !.toggled =
                      CompletionState(tasks'[req[p].taskId])
                          # CompletionState(tasks[req[p].taskId])]]
    /\ pc' = [pc EXCEPT ![p] = "findUser"]
    /\ UNCHANGED <<now, tz, isPremium, coins, dailyRewards, loaded, today, ret>>
    /\ UNCHANGED <<reminderVars, statsVars, crudVars>>

\* task.save() rejects: toggleTaskCompletion rethrows and the route answers 500
ToggleSaveFail(p) ==
    /\ pc[p] = "toggleSave"
    /\ req' = [req EXCEPT ![p] = RouteReq]
    /\ pc' = [pc EXCEPT ![p] = "returned"]
    /\ ret' = [ret EXCEPT ![p] = [kind |-> "error", totalCoins |-> 0, status |-> 500]]
    /\ UNCHANGED <<now, tz, isPremium, coins, dailyRewards, tasks, loaded, today>>
    /\ UNCHANGED <<reminderVars, statsVars, crudVars>>

\* const user = await User.findById(userId); if (!user || !user.isPremium) return null
FindUser(p) ==
    /\ pc[p] = "findUser"
    /\ loaded' = [loaded EXCEPT ![p] = FindById(req[p].userId)]
    /\ IF NotEligible(FindById(req[p].userId))
       THEN /\ pc' = [pc EXCEPT ![p] = "returned"]
            /\ ret' = [ret EXCEPT ![p] = Answer(p, "null", 0)]
       ELSE /\ pc' = [pc EXCEPT ![p] = "findTasks"]
            /\ ret' = ret
    /\ UNCHANGED <<now, tz, isPremium, coins, dailyRewards, tasks, req, today>>
    /\ UNCHANGED <<reminderVars, statsVars, crudVars>>

\* the decision taken on the day's tasks and the loaded user
Mints(p, t) ==
    /\ ~NoTasksToday(TodayTasks(t))
    /\ AllCompleted(TodayTasks(t))
    /\ ~AlreadyRewarded(loaded[p], t)

\* today = new Date(); todayTasks = await Task.find(...); the checks up to the mint
FindTasks(p) ==
    /\ pc[p] = "findTasks"
    /\ today' = [today EXCEPT ![p] = now]
    /\ IF Mints(p, now)
       THEN /\ pc' = [pc EXCEPT ![p] = "save"]
            /\ ret' = ret
       ELSE /\ pc' = [pc EXCEPT ![p] = "returned"]
            /\ ret' = [ret EXCEPT ![p] = Answer(p, "null", 0)]
    /\ UNCHANGED <<now, tz, isPremium, coins, dailyRewards, tasks, req, loaded>>
    /\ UNCHANGED <<reminderVars, statsVars, crudVars>>

\* user.coins += rewardAmount; user.dailyRewards.push({..., date: new Date()});
\* await user.save(): the changed path is set, the pushed entry is appended
Save(p) ==
    /\ pc[p] = "save"
    /\ \E t \in today[p]..now :
          dailyRewards' = Append(dailyRewards, RewardEntry(t))
    /\ coins' = loaded[p].coins + RewardAmount
    /\ ret' = [ret EXCEPT ![p] = Answer(p, "rewarded", loaded[p].coins + RewardAmount)]
    /\ pc' = [pc EXCEPT ![p] = "returned"]
    /\ UNCHANGED <<now, tz, isPremium, tasks, req, loaded, today>>
    /\ UNCHANGED <<reminderVars, statsVars, crudVars>>

\* user.save() rejects: nothing is stored, the error is logged and rethrown
SaveFail(p) ==
    /\ pc[p] = "save"
    /\ ret' = [ret EXCEPT ![p] = Answer(p, SaveFailureKind, 0)]
    /\ pc' = [pc EXCEPT ![p] = "returned"]
    /\ UNCHANGED <<now, tz, isPremium, coins, dailyRewards, tasks, req, loaded, today>>
    /\ UNCHANGED <<reminderVars, statsVars, crudVars>>

\* the request is over: its answer has been delivered
Finish(p) ==
    /\ pc[p] = "returned"
    /\ pc' = [pc EXCEPT ![p] = "idle"]
    /\ req' = [req EXCEPT ![p] = NoReq]
    /\ loaded' = [loaded EXCEPT ![p] = NullUser]
    /\ today' = [today EXCEPT ![p] = NoTime]
    /\ ret' = [ret EXCEPT ![p] = NoRet]
    /\ UNCHANGED <<now, tz, isPremium, coins, dailyRewards, tasks>>
    /\ UNCHANGED <<reminderVars, statsVars, crudVars>>

Next ==
    \/ Tick
    \/ \E p \in Procs, u \in UserIds : CallCheck(p, u)
    \/ \E p \in Procs, id \in TaskIds, c \in {"true", "false", "undefined"} :
          PatchComplete(p, id, c)
    \/ \E p \in Procs : ToggleSave(p)
    \/ \E p \in Procs : ToggleSaveFail(p)
    \/ \E p \in Procs : FindUser(p)
    \/ \E p \in Procs : FindTasks(p)
    \/ \E p \in Procs : Save(p)
    \/ \E p \in Procs : SaveFail(p)
    \/ \E p \in Procs : Finish(p)

Spec == Init /\ [][Next]_vars

\* requests served one after another: a request starts only when no other is open
Alone(p) == \A q \in Procs \ {p} : pc[q] = "idle"

NextSeq ==
    \/ Tick
    \/ \E p \in Procs, u \in UserIds : Alone(p) /\ CallCheck(p, u)
    \/ \E p \in Procs, id \in TaskIds, c \in {"true", "false", "undefined"} :
          Alone(p) /\ PatchComplete(p, id, c)
    \/ \E p \in Procs : ToggleSave(p)
    \/ \E p \in Procs : ToggleSaveFail(p)
    \/ \E p \in Procs : FindUser(p)
    \/ \E p \in Procs : FindTasks(p)
    \/ \E p \in Procs : Save(p)
    \/ \E p \in Procs : SaveFail(p)
    \/ \E p \in Procs : Finish(p)

SpecSeq == Init /\ [][NextSeq]_vars

\* ------------------------------------------- POST /:reminderId/complete
\* const result = await reminderService.completeReminder(userId, reminderId), and,
\* when no coin was granted, the response that follows at once
ReminderComplete(p, r, reward) ==
    /\ rpc[p] = "idle"
    /\ reward \in CoinRewardsOf(reminderDone[r])
    /\ rres' = [rres EXCEPT ![p] = [returned |-> TRUE, alreadyCompleted |-> reminderDone[r],
                                     coinReward |-> reward]]
    /\ reminderDone' = CompletedReminders(r)
    /\ reminderCoins' = GrantedCoins(reward)
    /\ IF ShouldNotify([coinReward |-> reward])
       THEN /\ rpc' = [rpc EXCEPT ![p] = "notify"]
            /\ rresp' = rresp
       ELSE /\ rpc' = [rpc EXCEPT ![p] = "answered"]
            /\ rresp' = [rresp EXCEPT ![p] = [status |-> 200, coinReward |-> reward]]
    /\ UNCHANGED <<rnote, rewardVars, statsVars, crudVars>>

\* completeReminder throws: the outer catch answers 404 or 500
ReminderCompleteFails(p, err) ==
    /\ rpc[p] = "idle"
    /\ rpc' = [rpc EXCEPT ![p] = "answered"]
    /\ rresp' = [rresp EXCEPT ![p] = [status |-> StatusOfError(err), coinReward |-> "null"]]
    /\ UNCHANGED <<reminderDone, reminderCoins, rres, rnote, rewardVars, statsVars, crudVars>>

\* const user = await User.findById(userId) inside the inner try
NotifyLoadUser(p, found) ==
    /\ rpc[p] = "notify"
    /\ IF WillSend(found)
       THEN /\ rpc' = [rpc EXCEPT ![p] = "send"]
            /\ UNCHANGED <<rnote, rresp>>
       ELSE /\ rpc' = [rpc EXCEPT ![p] = "answered"]
            /\ rnote' = [rnote EXCEPT ![p] = found]
            /\ rresp' = [rresp EXCEPT ![p] = [status |-> StatusAfterNotify(found),
                                               coinReward |-> rres[p].coinReward]]
    /\ UNCHANGED <<reminderDone, reminderCoins, rres, rewardVars, statsVars, crudVars>>

\* await notificationService.sendPushNotification(user, coinNotification)
NotifySend(p, outcome) ==
    /\ rpc[p] = "send"
    /\ rpc' = [rpc EXCEPT ![p] = "answered"]
    /\ rnote' = [rnote EXCEPT ![p] = outcome]
    /\ rresp' = [rresp EXCEPT ![p] = [status |-> StatusAfterNotify(outcome),
                                       coinReward |-> rres[p].coinReward]]
    /\ UNCHANGED <<reminderDone, reminderCoins, rres, rewardVars, statsVars, crudVars>>

\* the response has been delivered
ReminderFinish(p) ==
    /\ rpc[p] = "answered"
    /\ rpc' = [rpc EXCEPT ![p] = "idle"]
    /\ rres' = [rres EXCEPT ![p] = NoResult]
    /\ rnote' = [rnote EXCEPT ![p] = "none"]
    /\ rresp' = [rresp EXCEPT ![p] = NoResponse]
    /\ UNCHANGED <<reminderDone, reminderCoins, rewardVars, statsVars, crudVars>>

NextReminder ==
    \/ \E p \in Procs, r \in ReminderIds, c \in {"null", "not_rewarded", "rewarded"} :
          ReminderComplete(p, r, c)
    \/ \E p \in Procs, e \in {"not_found", "other"} : ReminderCompleteFails(p, e)
    \/ \E p \in Procs, f \in {"throws", "null", "disabled", "enabled"} : NotifyLoadUser(p, f)
    \/ \E p \in Procs, o \in {"sent", "send_failed"} : NotifySend(p, o)
    \/ \E p \in Procs : ReminderFinish(p)

SpecReminder == Init /\ [][NextReminder]_vars

\* ------------------------------------------------------ AnalysisService
\* a pomodoro session is stored
CreateSession(s) ==
    /\ Cardinality(sessions) < MaxSessions
    /\ s \notin sessions
    /\ sessions' = sessions \cup {s}
    /\ UNCHANGED <<statsRet, rewardVars, reminderVars, crudVars>>

\* getDailyStats / getWeeklyStats / getMonthlyStats(userId, date)
GetPeriodStats(type, d) ==
    /\ statsRet' = StatsOf(type, {s \in sessions : InWindow(type, s, d)})
    /\ UNCHANGED <<sessions, rewardVars, reminderVars, crudVars>>

\* getDDayStats(userId, goalTitle)
GetDDayStats(goalTitle) ==
    LET goalSessions == {s \in sessions : s.goal = goalTitle}
    IN /\ statsRet' =
             IF ~isPremium THEN NoStatsOf("getDDayStats", "premium_only", goalSessions)
             ELSE IF goalSessions = {} THEN DDayOfNoData(goalSessions)
             ELSE StatsOf("getDDayStats", goalSessions)
       /\ UNCHANGED <<sessions, rewardVars, reminderVars, crudVars>>

\* generateAIRecommendation(userId), called on day d
GenerateAIRecommendation(d) ==
    LET recent == {s \in sessions : s.day >= d - DaysPerMonth}
    IN /\ statsRet' =
             IF recent = {} THEN RecommendationOfNoData(recent)
             ELSE NoStatsOf("generateAIRecommendation", "recommendation", recent)
       /\ UNCHANGED <<sessions, rewardVars, reminderVars, crudVars>>

NextStats ==
    \/ \E s \in Session : CreateSession(s)
    \/ \E t \in {"daily", "weekly", "monthly"}, d \in QueryDays : GetPeriodStats(t, d)
    \/ \E g \in Goals : GetDDayStats(g)
    \/ \E d \in QueryDays : GenerateAIRecommendation(d)

SpecStats == Init /\ [][NextStats]_vars

\* ------------------------------------------------------ CoinTransaction
\* new CoinTransaction({ amount, balanceAfter, status })
NewTransaction(i, amount, balanceAfter, status) ==
    /\ tx[i].state = "none"
    /\ tx' = [tx EXCEPT ![i] = [state |-> "new", amount |-> amount,
                                 balanceAfter |-> balanceAfter, status |-> status,
                                 cancelNotes |-> 0]]
    /\ txRet' = TxRet("new", i, "ok", "none")
    /\ UNCHANGED txStored
    /\ UNCHANGED <<rewardVars, reminderVars, statsVars, taskVars, pomodoroVars, lateVars>>

\* this.save() of the document doc under id i, called by op
SaveDoc(op, i, doc) ==
    IF SaveError(doc) = "none"
    THEN /\ tx' = [tx EXCEPT ![i] = [doc EXCEPT !.state = "saved"]]
         /\ txStored' = [txStored EXCEPT ![i] = [doc EXCEPT !.state = "saved"]]
         /\ txRet' = TxRet(op, i, "ok", "none")
    ELSE /\ tx' = [tx EXCEPT ![i] = doc]
         /\ txRet' = TxRet(op, i, "rejected", SaveError(doc))
         /\ UNCHANGED txStored

\* transaction.save() of a new document
SaveTransaction(i) ==
    /\ tx[i].state = "new"
    /\ SaveDoc("save", i, tx[i])
    /\ UNCHANGED <<rewardVars, reminderVars, statsVars, taskVars, pomodoroVars, lateVars>>

\* transaction.cancel(reason)
Cancel(i) ==
    /\ tx[i].state # "none"
    /\ IF NotPending(tx[i])
       THEN /\ txRet' = TxRet("cancel", i, "throws", "not_pending")
            /\ UNCHANGED <<tx, txStored>>
       ELSE SaveDoc("cancel", i, [tx[i] EXCEPT !.status = "cancelled",
                                               !.cancelNotes = @ + 1])
    /\ UNCHANGED <<rewardVars, reminderVars, statsVars, taskVars, pomodoroVars, lateVars>>

\* transaction.complete()
Complete(i) ==
    /\ tx[i].state # "none"
    /\ IF NotPending(tx[i])
       THEN /\ txRet' = TxRet("complete", i, "throws", "not_pending")
            /\ UNCHANGED <<tx, txStored>>
       ELSE SaveDoc("complete", i, [tx[i] EXCEPT !.status = "completed"])
    /\ UNCHANGED <<rewardVars, reminderVars, statsVars, taskVars, pomodoroVars, lateVars>>

NextCoinTx ==
    \/ \E i \in TxIds, a \in TxAmounts, b \in TxBalances, st \in TxStatuses :
          NewTransaction(i, a, b, st)
    \/ \E i \in TxIds : SaveTransaction(i)
    \/ \E i \in TxIds : Cancel(i)
    \/ \E i \in TxIds : Complete(i)

\* the model alone: one starting state of the reward gate, which it never touches
InitCoinTx == Init /\ tz = 0 /\ ~isPremium /\ \A id \in TaskIds : ~tasks[id].exists

SpecCoinTx == InitCoinTx /\ [][NextCoinTx]_vars

\* ------------------------------------------------------ the pomodoro router
\* POST /sessions
PostSessions(i) ==
    /\ psessions[i] = "none"
    /\ psessions' = [psessions EXCEPT ![i] = "created"]
    /\ pret' = PRet("POST /sessions", i, 201)
    /\ UNCHANGED <<rewardVars, reminderVars, statsVars, taskVars, coinTxVars, lateVars>>

\* POST /sessions/:sessionId/start
PostStart(i) ==
    /\ IF "POST /sessions/:sessionId/start" \notin RegisteredRoutes
       THEN /\ pret' = PRet("POST /sessions/:sessionId/start", i, NoHandlerStatus)
            /\ UNCHANGED psessions
       ELSE IF CanStart(psessions[i])
       THEN /\ psessions' = [psessions EXCEPT ![i] = "started"]
            /\ pret' = PRet("POST /sessions/:sessionId/start", i, 200)
       ELSE /\ pret' = PRet("POST /sessions/:sessionId/start", i, 400)
            /\ UNCHANGED psessions
    /\ UNCHANGED <<rewardVars, reminderVars, statsVars, taskVars, coinTxVars, lateVars>>

\* POST /sessions/:sessionId/complete
PostComplete(i) ==
    /\ IF CanComplete(psessions[i])
       THEN /\ psessions' = [psessions EXCEPT ![i] = "completed"]
            /\ pret' = PRet("POST /sessions/:sessionId/complete", i, 200)
       ELSE /\ pret' = PRet("POST /sessions/:sessionId/complete", i, 400)
            /\ UNCHANGED psessions
    /\ UNCHANGED <<rewardVars, reminderVars, statsVars, taskVars, coinTxVars, lateVars>>

\* POST /quick-start: createSession and then startSession
PostQuickStart(i) ==
    /\ psessions[i] = "none"
    /\ psessions' = [psessions EXCEPT ![i] = "started"]
    /\ pret' = PRet("POST /quick-start", i, 201)
    /\ UNCHANGED <<rewardVars, reminderVars, statsVars, taskVars, coinTxVars, lateVars>>

NextPomodoro ==
    \/ \E i \in PSessionIds : PostSessions(i)
    \/ \E i \in PSessionIds : PostStart(i)
    \/ \E i \in PSessionIds : PostComplete(i)
    \/ \E i \in PSessionIds : PostQuickStart(i)

\* the router alone: one starting state of the reward gate, which it never touches
InitPomodoro == Init /\ tz = 0 /\ ~isPremium /\ \A id \in TaskIds : ~tasks[id].exists

SpecPomodoro == InitPomodoro /\ [][NextPomodoro]_vars

\* ------------------------------------------------------ createCategory
\* POST /categories: taskService.createCategory(userId, { name, color })
CallCreateCategory(p, name) ==
    /\ cpc[p] = "idle"
    /\ Len(cats) + InFlight < MaxCategories
    /\ cpc' = [cpc EXCEPT ![p] = "findName"]
    /\ creq' = [creq EXCEPT ![p] = name]
    /\ UNCHANGED <<cats, cord, cret>>
    /\ UNCHANGED <<rewardVars, reminderVars, statsVars, taskVars, coinTxVars, pomodoroVars,
                   aiVars, weeklyVars>>

\* the duplicate check: existingCategory and the throw
FindName(p) ==
    /\ cpc[p] = "findName"
    /\ IF ExistingCategory(creq[p])
       THEN /\ cpc' = [cpc EXCEPT ![p] = "returned"]
            /\ cret' = [cret EXCEPT ![p] = "duplicate_name"]
       ELSE /\ cpc' = [cpc EXCEPT ![p] = "findLast"]
            /\ UNCHANGED cret
    /\ UNCHANGED <<cats, creq, cord>>
    /\ UNCHANGED <<rewardVars, reminderVars, statsVars, taskVars, coinTxVars, pomodoroVars,
                   aiVars, weeklyVars>>

\* lastCategory and nextOrder
FindLast(p) ==
    /\ cpc[p] = "findLast"
    /\ cord' = [cord EXCEPT ![p] = NextOrder]
    /\ cpc' = [cpc EXCEPT ![p] = "save"]
    /\ UNCHANGED <<cats, creq, cret>>
    /\ UNCHANGED <<rewardVars, reminderVars, statsVars, taskVars, coinTxVars, pomodoroVars,
                   aiVars, weeklyVars>>

\* new Category({ userId, name: name.trim(), ..., order: nextOrder }); category.save()
SaveCategory(p) ==
    /\ cpc[p] = "save"
    /\ cats' = Append(cats, [name |-> Trim(creq[p]), order |-> cord[p], isActive |-> TRUE])
    /\ cpc' = [cpc EXCEPT ![p] = "returned"]
    /\ cret' = [cret EXCEPT ![p] = "ok"]
    /\ UNCHANGED <<creq, cord>>
    /\ UNCHANGED <<rewardVars, reminderVars, statsVars, taskVars, coinTxVars, pomodoroVars,
                   aiVars, weeklyVars>>

\* the response is sent
CategoryFinish(p) ==
    /\ cpc[p] = "returned"
    /\ cpc' = [cpc EXCEPT ![p] = "idle"]
    /\ creq' = [creq EXCEPT ![p] = "none"]
    /\ cord' = [cord EXCEPT ![p] = 0]
    /\ cret' = [cret EXCEPT ![p] = "none"]
    /\ UNCHANGED cats
    /\ UNCHANGED <<rewardVars, reminderVars, statsVars, taskVars, coinTxVars, pomodoroVars,
                   aiVars, weeklyVars>>

NextCategories ==
    \/ \E p \in Procs, n \in CategoryNames : CallCreateCategory(p, n)
    \/ \E p \in Procs : FindName(p)
    \/ \E p \in Procs : FindLast(p)
    \/ \E p \in Procs : SaveCategory(p)
    \/ \E p \in Procs : CategoryFinish(p)

\* createCategory alone: one starting state of the reward gate, which it never touches
InitCategories == Init /\ tz = 0 /\ ~isPremium /\ \A id \in TaskIds : ~tasks[id].exists

SpecCategories == InitCategories /\ [][NextCategories]_vars

\* ------------------------------------------------------ AIService
\* constructor(): isInitialized is true when OPENAI_API_KEY is set
Construct(hasKey) ==
    /\ aiState = "unconstructed"
    /\ aiState' = IF hasKey THEN "initialized" ELSE "limited"
    /\ UNCHANGED aiRet
    /\ UNCHANGED <<rewardVars, reminderVars, statsVars, taskVars, coinTxVars, pomodoroVars,
                   categoryVars, weeklyVars>>

\* aiService.generateRoutineRecommendation(userData)
GenerateRoutineRecommendation(userData, call) ==
    /\ aiState # "unconstructed"
    /\ aiRet' =
          IF aiState # "initialized"
          THEN GenerateFallbackRecommendation(userData)
          ELSE [(IF call = "ok" THEN AiGenerated(userData) ELSE OnFailure(userData))
                    EXCEPT !.initialized = TRUE, !.call = call]
    /\ UNCHANGED aiState
    /\ UNCHANGED <<rewardVars, reminderVars, statsVars, taskVars, coinTxVars, pomodoroVars,
                   categoryVars, weeklyVars>>

NextAI ==
    \/ \E k \in BOOLEAN : Construct(k)
    \/ \E u \in UserDatas, c \in OpenAiCalls : GenerateRoutineRecommendation(u, c)

\* the AI service alone: one starting state of the reward gate, which it never touches
InitAI == Init /\ tz = 0 /\ ~isPremium /\ \A id \in TaskIds : ~tasks[id].exists

SpecAI == InitAI /\ [][NextAI]_vars

\* ------------------------------------------------------ getWeeklyStats
\* analysisService.getWeeklyStats(userId, date): weeklyData and bestDay
GetWeeklyStats(minutes) ==
    /\ weeklyRet' = [weeklyData |-> GenerateWeeklyData(minutes),
                     bestDay |-> BestDay(GenerateWeeklyData(minutes))]
    /\ UNCHANGED <<rewardVars, reminderVars, statsVars, taskVars, coinTxVars, pomodoroVars,
                   categoryVars, aiVars>>

NextWeekly == \E m \in [WeekDays -> MinuteValues] : GetWeeklyStats(m)

\* getWeeklyStats alone: one starting state of the reward gate, which it never touches
InitWeekly == Init /\ tz = 0 /\ ~isPremium /\ \A id \in TaskIds : ~tasks[id].exists

SpecWeekly == InitWeekly /\ [][NextWeekly]_vars

\* ---------------------------------------------------------- TaskService
\* the new Task document of createTask and, of a recurrence, its instances
CreatedTasks(userId, categoryId, date, dates) ==
    LET parent == NextKey
        doc(d) == [state |-> "stored", userId |-> userId, template |-> parent, date |-> d,
                   isCompleted |-> FALSE, completedAt |-> FALSE,
                   hasGrowthAlbum |-> FALSE, categoryId |-> categoryId]
        keyOf(d) == parent + Cardinality({e \in dates : e <= d})
    IN [k \in TaskKeys |->
            IF k = parent THEN doc(date)
            ELSE IF \E d \in dates : keyOf(d) = k
                 THEN doc(CHOOSE d \in dates : keyOf(d) = k)
                 ELSE store[k]]

\* taskService.createTask(userId, taskData)
CreateTask(userId, categoryId, date, isRepeating, repeatType, repeatEndDate) ==
    LET dates == InstanceDates(isRepeating, repeatType, date, repeatEndDate)
        input == [TaskRet("createTask", userId, 0, "none") EXCEPT
                     !.categoryId = categoryId, !.isRepeating = isRepeating,
                     !.repeatEndDate = repeatEndDate]
    IN /\ tret = NoTaskRet
       /\ IF ~FindOwnCategory(userId, categoryId)
          THEN /\ tret' = [input EXCEPT !.outcome = "invalid_category"]
               /\ UNCHANGED <<store, albums, catStats>>
          ELSE LET st == CreatedTasks(userId, categoryId, date, dates)
               IN /\ NextKey + Cardinality(dates) <= Cardinality(TaskKeys)
                  /\ store' = st
                  /\ catStats' = UpdateStats(categoryId)
                  /\ tret' = [input EXCEPT !.taskId = NextKey, !.outcome = "ok"]
                  /\ UNCHANGED albums
       /\ UNCHANGED <<rewardVars, reminderVars, statsVars, coinTxVars, pomodoroVars, lateVars>>

\* if (task.isCompleted) throw new Error('이미 완료된 Task입니다.')
AlreadyCompletedMutant(task) == FALSE
AlreadyCompleted(task) == task.isCompleted

\* what completeTask hands back, with the growthAlbumData it was given
CompleteRet(userId, taskId, growthAlbumData, outcome) ==
    [TaskRet("completeTask", userId, taskId, outcome) EXCEPT
        !.growthAlbumData = growthAlbumData]

\* task.complete(actualMinutes)
Completed(task) == [task EXCEPT !.isCompleted = TRUE, !.completedAt = TRUE]

\* taskService.completeTask(userId, taskId, { growthAlbumData })
CompleteTask(userId, taskId, growthAlbumData) ==
    /\ tret = NoTaskRet
    /\ IF ~FindOwnTask(userId, taskId)
       THEN /\ tret' = CompleteRet(userId, taskId, growthAlbumData, "task_not_found")
            /\ UNCHANGED <<store, albums>>
       ELSE IF AlreadyCompleted(store[taskId])
       THEN /\ tret' = CompleteRet(userId, taskId, growthAlbumData, "already_completed")
            /\ UNCHANGED <<store, albums>>
       ELSE /\ store' = [store EXCEPT ![taskId] = Completed(@)]
            /\ IF store[taskId].hasGrowthAlbum /\ growthAlbumData
               THEN /\ AlbumCount + 1 \in AlbumCounts
                    /\ albums' = [albums EXCEPT ![taskId] = @ + 1]
               ELSE UNCHANGED albums
            /\ tret' = CompleteRet(userId, taskId, growthAlbumData, "ok")
    /\ UNCHANGED catStats
    /\ UNCHANGED <<rewardVars, reminderVars, statsVars, coinTxVars, pomodoroVars, lateVars>>

\* taskService.updateTask(userId, taskId, updateData)
UpdateTask(userId, taskId, u) ==
    /\ tret = NoTaskRet
    /\ IF ~FindOwnTask(userId, taskId)
       THEN /\ tret' = TaskRet("updateTask", userId, taskId, "task_not_found")
            /\ UNCHANGED store
       ELSE IF CategoryChanges(store[taskId], u) /\ ~FindOwnCategory(userId, u.categoryId)
       THEN /\ tret' = TaskRet("updateTask", userId, taskId, "invalid_category")
            /\ UNCHANGED store
       ELSE /\ store' = [store EXCEPT ![taskId] = ApplyUpdate(@, u)]
            /\ tret' = TaskRet("updateTask", userId, taskId, "ok")
    /\ UNCHANGED <<albums, catStats>>
    /\ UNCHANGED <<rewardVars, reminderVars, statsVars, coinTxVars, pomodoroVars, lateVars>>

\* taskService.deleteTask(userId, taskId)
DeleteTask(userId, taskId) ==
    /\ tret = NoTaskRet
    /\ IF ~FindOwnTask(userId, taskId)
       THEN /\ tret' = TaskRet("deleteTask", userId, taskId, "task_not_found")
            /\ UNCHANGED <<store, albums>>
       ELSE /\ albums' = IF store[taskId].hasGrowthAlbum
                         THEN [albums EXCEPT ![taskId] = 0]
                         ELSE albums
            /\ store' = [store EXCEPT ![taskId] = [NoTask EXCEPT !.state = "deleted"]]
            /\ tret' = TaskRet("deleteTask", userId, taskId, "ok")
    /\ UNCHANGED catStats
    /\ UNCHANGED <<rewardVars, reminderVars, statsVars, coinTxVars, pomodoroVars, lateVars>>

\* taskService.createGrowthAlbum(userId, taskId, albumData)
CreateGrowthAlbum(userId, taskId) ==
    /\ tret = NoTaskRet
    /\ IF ~FindOwnTask(userId, taskId)
       THEN /\ tret' = TaskRet("createGrowthAlbum", userId, taskId, "task_not_found")
            /\ UNCHANGED <<store, albums>>
       ELSE /\ AlbumCount + 1 \in AlbumCounts
            /\ albums' = [albums EXCEPT ![taskId] = @ + 1]
            /\ store' = [store EXCEPT ![taskId].hasGrowthAlbum = TRUE]
            /\ tret' = TaskRet("createGrowthAlbum", userId, taskId, "ok")
    /\ UNCHANGED catStats
    /\ UNCHANGED <<rewardVars, reminderVars, statsVars, coinTxVars, pomodoroVars, lateVars>>

\* taskService.toggleTaskCompletion(userId, taskId, isCompleted)
ToggleTaskCompletion(userId, taskId, isCompleted) ==
    /\ tret = NoTaskRet
    /\ IF ~FindOwnTask(userId, taskId)
       THEN /\ tret' = TaskRet("toggleTaskCompletion", userId, taskId, "task_not_found")
            /\ UNCHANGED store
       ELSE LET v == ToggledValue(store[taskId], isCompleted)
            IN /\ store' = [store EXCEPT ![taskId].isCompleted = v,
                                         ![taskId].completedAt = v]
               /\ tret' = TaskRet("toggleTaskCompletion", userId, taskId, "ok")
    /\ UNCHANGED <<albums, catStats>>
    /\ UNCHANGED <<rewardVars, reminderVars, statsVars, coinTxVars, pomodoroVars, lateVars>>

\* the caller takes what the operation handed back; the next call follows
TaskReturn ==
    /\ tret # NoTaskRet
    /\ tret' = NoTaskRet
    /\ UNCHANGED <<store, albums, catStats>>
    /\ UNCHANGED <<rewardVars, reminderVars, statsVars, coinTxVars, pomodoroVars, lateVars>>

NextTasks ==
    \/ TaskReturn
    \/ \E u \in TaskUsers, c \in CategoryInputs, d \in TaskDays :
          \/ CreateTask(u, c, d, FALSE, "null", NoTime)
          \/ \E ty \in RepeatTypes, e \in RepeatEnds : CreateTask(u, c, d, TRUE, ty, e)
    \/ \E u \in TaskUsers, k \in TaskKeys, g \in BOOLEAN : CompleteTask(u, k, g)
    \/ \E u \in TaskUsers, k \in TaskKeys, d \in UpdateDatas : UpdateTask(u, k, d)
    \/ \E u \in TaskUsers, k \in TaskKeys : DeleteTask(u, k)
    \/ \E u \in TaskUsers, k \in TaskKeys : CreateGrowthAlbum(u, k)
    \/ \E u \in TaskUsers, k \in TaskKeys, b \in {"true", "false", "undefined"} :
          ToggleTaskCompletion(u, k, b)

\* the task service alone: one starting state of the reward gate, which it
\* never touches
InitTasks == Init /\ tz = 0 /\ ~isPremium /\ \A id \in TaskIds : ~tasks[id].exists

SpecTasks == InitTasks /\ [][NextTasks]_vars

\* ---------------------------------------------------------------- claims
TaskCompletionEntries == {i \in 1..Len(dailyRewards) : dailyRewards[i].type = "task_completion"}

RECURSIVE SumAmounts(_)
SumAmounts(s) == IF s = <<>> THEN 0 ELSE Head(s).amount + SumAmounts(Tail(s))

OnePerDayKey ==
    \A i, j \in TaskCompletionEntries :
        i # j => ToISODate(dailyRewards[i].date) # ToISODate(dailyRewards[j].date)

\* C1: with the requests served one after another, the stored dailyRewards hold
\* at most one task_completion entry per day, and the balance has grown by
\* exactly one coin per such entry (so by at most 1 for one day).
C1_OncePerDaySequential ==
    /\ OnePerDayKey
    /\ coins = InitCoins + Cardinality(TaskCompletionEntries)
    /\ Cardinality(TaskCompletionEntries) = Len(dailyRewards)

\* C1 witness: a day already rewarded, its tasks complete again, and the repeated
\* check of the route answered without a reward.
C1_Witness ==
    \E p \in Procs :
        /\ pc[p] = "returned" /\ req[p].kind = "route" /\ ret[p].kind = "null"
        /\ today[p] # NoTime
        /\ TodayTasks(today[p]) # {} /\ AllCompleted(TodayTasks(today[p]))
        /\ Len(dailyRewards) = 1
        /\ ToISODate(dailyRewards[1].date) = ToISODate(today[p])
        /\ coins = InitCoins + 1

\* C2: two interleaved checks for the same day never both mint: never two
\* answers rewarded=true for one day, never two stored entries for one day.
C2_NoDoubleMint ==
    /\ OnePerDayKey
    /\ \A p, q \in Procs :
          (p # q /\ ret[p].kind = "rewarded" /\ ret[q].kind = "rewarded")
              => ToISODate(today[p]) # ToISODate(today[q])

\* C3: the stored balance equals the initial balance plus the sum of the amounts
\* of the stored dailyRewards entries, in every reachable state.
C3_BalanceEqualsLedger == coins = InitCoins + SumAmounts(dailyRewards)

\* C4: a check that finds no task dated today answers null at once, stores no
\* entry and leaves the balance as it was.
C4_EmptyDayNoReward ==
    [][\A p \in Procs :
          (pc[p] = "findTasks" /\ pc'[p] # "findTasks" /\ TodayTasks(now) = {})
              => /\ pc'[p] = "returned" /\ ret'[p].kind = "null"
                 /\ coins' = coins /\ dailyRewards' = dailyRewards]_vars

\* C4 witness: a premium user's check has returned null on a day without tasks.
C4_Witness ==
    \E p \in Procs :
        /\ pc[p] = "returned" /\ ret[p].kind = "null"
        /\ loaded[p].found /\ loaded[p].isPremium
        /\ today[p] # NoTime /\ TodayTasks(today[p]) = {}

\* C5: a check that finds at least one incomplete task dated today answers null,
\* stores no entry and leaves the balance as it was.
C5_IncompleteDayNoReward ==
    [][\A p \in Procs :
          (/\ pc[p] = "findTasks" /\ pc'[p] # "findTasks"
           /\ \E id \in TodayTasks(now) : ~tasks[id].isCompleted)
              => /\ pc'[p] = "returned" /\ ret'[p].kind = "null"
                 /\ coins' = coins /\ dailyRewards' = dailyRewards]_vars

\* C5 witness: the check has returned null on a day with one complete and one
\* incomplete task and no reward stored.
C5_Witness ==
    \E p \in Procs :
        /\ pc[p] = "returned" /\ ret[p].kind = "null"
        /\ loaded[p].found /\ loaded[p].isPremium /\ today[p] # NoTime
        /\ dailyRewards = <<>>
        /\ \E a, b \in TodayTasks(today[p]) : tasks[a].isCompleted /\ ~tasks[b].isCompleted

\* C6: a check that finds the day complete and unrewarded goes on to the write;
\* the write appends exactly one task_completion entry of amount 1, stores the
\* loaded balance plus 1 (the stored balance plus 1 when no other write came in
\* between), and totalCoins is the balance stored by the write.
C6_MintIsOneCoin ==
    [][\A p \in Procs :
          /\ (/\ pc[p] = "findTasks" /\ pc'[p] # "findTasks"
              /\ TodayTasks(now) # {}
              /\ \A id \in TodayTasks(now) : tasks[id].isCompleted
              /\ \A i \in 1..Len(loaded[p].dailyRewards) :
                    ToISODate(loaded[p].dailyRewards[i].date) # ToISODate(now))
                => pc'[p] = "save"
          /\ (pc[p] = "save" /\ ret'[p].kind = "rewarded")
                => /\ Len(dailyRewards') = Len(dailyRewards) + 1
                   /\ SubSeq(dailyRewards', 1, Len(dailyRewards)) = dailyRewards
                   /\ dailyRewards'[Len(dailyRewards')].type = "task_completion"
                   /\ dailyRewards'[Len(dailyRewards')].amount = 1
                   /\ coins' = loaded[p].coins + 1
                   /\ (loaded[p].coins = coins => coins' = coins + 1)
                   /\ ret'[p].totalCoins = coins']_vars

\* C6 witness: the first mint has been made and answered.
C6_Witness ==
    \E p \in Procs :
        /\ pc[p] = "returned" /\ ret[p].kind = "rewarded"
        /\ ret[p].totalCoins = InitCoins + 1 /\ coins = InitCoins + 1
        /\ Len(dailyRewards) = 1

\* C7: a check for a user id that resolves to no user ends in an error, not in
\* the null answer of an ineligible day.
C7_UnknownUserFails ==
    \A p \in Procs :
        (pc[p] = "returned" /\ req[p].kind = "service" /\ req[p].userId # StoredUser)
            => ret[p].kind = "error"

\* C8: the write of the reward is attempted once per call; when it fails the call
\* ends in an error (HTTP 500 through the route), never in the null answer, and
\* nothing is stored.
C8_SaveFailureSurfaces ==
    [][\A p \in Procs :
          (pc[p] = "save" /\ pc'[p] # "save")
              => /\ pc'[p] = "returned"
                 /\ \/ /\ ret'[p].kind = "rewarded"
                       /\ Len(dailyRewards') = Len(dailyRewards) + 1
                    \/ /\ ret'[p].kind = "error"
                       /\ (req[p].kind = "route" => ret'[p].status = 500)
                       /\ dailyRewards' = dailyRewards
                       /\ coins' = coins]_vars

\* C8 witness: the route has answered 500 after a failed write, nothing stored.
C8_Witness ==
    \E p \in Procs :
        /\ pc[p] = "returned" /\ req[p].kind = "route" /\ today[p] # NoTime
        /\ ret[p].kind = "error" /\ ret[p].status = 500
        /\ dailyRewards = <<>> /\ coins = InitCoins

\* C9: in POST /:reminderId/complete the coin notification is attempted only for
\* a result with rewarded = true; whatever becomes of it, the answer is 200 with
\* the coinReward completeReminder returned, and the notification steps leave the
\* stored completion and the granted coins as they were.
C9_NotifyIsBestEffort ==
    /\ [](\A p \in Procs :
            /\ (rpc[p] \in {"notify", "send"} \/ rnote[p] # "none")
                  => rres[p].coinReward = "rewarded"
            /\ (rpc[p] = "answered" /\ rres[p].returned)
                  => rresp[p].status = 200 /\ rresp[p].coinReward = rres[p].coinReward)
    /\ [][\A p \in Procs :
            (rpc[p] \in {"notify", "send"} /\ rpc'[p] # rpc[p])
                => reminderDone' = reminderDone /\ reminderCoins' = reminderCoins]_vars

\* C9 witness: the push failed after a granted coin and the answer is still 200
\* with the reward, the reminder completed and the coin granted.
C9_Witness ==
    \E p \in Procs :
        /\ rpc[p] = "answered" /\ rnote[p] \in {"throws", "send_failed"}
        /\ rresp[p].status = 200 /\ rresp[p].coinReward = "rewarded"
        /\ reminderCoins >= 1 /\ \E r \in ReminderIds : reminderDone[r]

\* C10: every analysis operation whose query matches no session completes and
\* returns zero-valued statistics (a refusal of D-Day to a free user aside).
C10_NoDataIsZeroStats ==
    (statsRet.op # "none" /\ statsRet.matched = 0 /\ statsRet.outcome # "premium_only")
        => /\ statsRet.outcome = "stats"
           /\ statsRet.totalSessions = 0
           /\ statsRet.completionRate = 0
           /\ statsRet.averageSessionLength = 0

\* the operations of the task service that take the id of a task
OwnedTaskOps ==
    {"completeTask", "updateTask", "deleteTask", "toggleTaskCompletion", "createGrowthAlbum"}

\* C11: createTask with isRepeating = true and no repeatEndDate fails with an
\* invalid-recurrence error and persists no task.  The service has no such
\* check: the task is saved with repeatEndDate null and returned.
C11_MissingEndDateRejected ==
    (tret.op = "createTask" /\ tret.isRepeating /\ tret.repeatEndDate = NoTime)
        => (tret.outcome # "ok" /\ tret.taskId = 0)

\* C12: after any sequence of createTask and updateTask calls, no two stored
\* task instances share the same (originating template, date) pair.
\* updateTask assigns any date it is given, so an instance can be moved onto
\* the date of another instance of its template.
C12_OneInstancePerTemplateDate ==
    \A j, k \in TaskKeys :
        (j # k /\ store[j].state = "stored" /\ store[k].state = "stored"
             /\ store[j].template = store[k].template)
            => store[j].date # store[k].date

\* C15: an operation of the task service called with the id of one user and
\* the id of a task another user owns fails with 'Task를 찾을 수 없습니다.' and
\* leaves every task and every growth album as it was.
C15_ForeignTaskUntouched ==
    [][\A k \in TaskKeys :
          (/\ store[k].state = "stored"
           /\ tret'.op \in OwnedTaskOps
           /\ tret'.taskId = k
           /\ tret'.userId # store[k].userId)
              => (tret'.outcome = "task_not_found" /\ store' = store /\ albums' = albums)]_vars

\* a call on the task of another user, which has a growth album, was refused
C15_Witness ==
    /\ tret.op \in OwnedTaskOps
    /\ tret.outcome = "task_not_found"
    /\ tret.taskId \in TaskKeys
    /\ store[tret.taskId].state = "stored"
    /\ store[tret.taskId].userId # tret.userId
    /\ albums[tret.taskId] > 0

\* C16: createTask with a categoryId that is not a category of the caller
\* throws '유효하지 않은 카테고리입니다.' before anything is written: no task,
\* no repeated instance, no category statistics.
C16_InvalidCategoryWritesNothing ==
    [][(/\ tret'.op = "createTask"
        /\ ~(tret'.categoryId \in CategoryIds /\ CategoryOwner(tret'.categoryId) = tret'.userId))
           => (/\ tret'.outcome = "invalid_category"
               /\ store' = store /\ catStats' = catStats /\ albums' = albums)]_vars

\* a repeating createTask naming the category of another user was refused
\* while tasks were stored
C16_Witness ==
    /\ tret.op = "createTask"
    /\ tret.outcome = "invalid_category"
    /\ tret.categoryId \in CategoryIds
    /\ tret.isRepeating /\ tret.repeatEndDate # NoTime
    /\ \E k \in TaskKeys : store[k].state = "stored"

\* C13: a coin ledger record is never modified or removed once created:
\* user.dailyRewards only grows at its end, and the amount, status and
\* description of a stored CoinTransaction never change.  cancel() and
\* complete() rewrite the status and the description of a stored pending
\* transaction.
C13_LedgerRecordsNeverChange ==
    [][/\ Len(dailyRewards') >= Len(dailyRewards)
       /\ SubSeq(dailyRewards', 1, Len(dailyRewards)) = dailyRewards
       /\ \A i \in TxIds :
             txStored[i].state = "saved"
                 => (/\ txStored'[i].state = "saved"
                     /\ txStored'[i].amount = txStored[i].amount
                     /\ txStored'[i].status = txStored[i].status
                     /\ txStored'[i].cancelNotes = txStored[i].cancelNotes)]_vars

\* C14: every stored CoinTransaction has balanceAfter >= 0 and amount # 0; a
\* save with balanceAfter < 0 is rejected with code INSUFFICIENT_BALANCE, a
\* save with amount = 0 is rejected, and neither stores anything.  The schema's
\* min: 0 rejects a negative balanceAfter before the hook that sets the code runs.
C14_SaveRejectsBadRecords ==
    /\ \A i \in TxIds :
          txStored[i].state = "saved" => (txStored[i].balanceAfter >= 0 /\ txStored[i].amount # 0)
    /\ (txRet.op = "save" /\ tx[txRet.id].balanceAfter < 0)
          => (/\ txRet.outcome = "rejected"
              /\ txRet.error = "INSUFFICIENT_BALANCE"
              /\ txStored[txRet.id] = NoTx)
    /\ (txRet.op = "save" /\ tx[txRet.id].amount = 0)
          => (txRet.outcome = "rejected" /\ txStored[txRet.id] = NoTx)

\* C20: cancel() and complete() take effect only on a pending transaction; on
\* any other they throw and leave status and description as they are, so a
\* transaction that has left 'pending' keeps its status under every sequence
\* of cancel and complete calls.
C20_OnlyPendingChanges ==
    [][\A i \in TxIds :
          (tx[i].state # "none" /\ tx[i].status # "pending")
              => (/\ tx'[i].status = tx[i].status
                  /\ tx'[i].cancelNotes = tx[i].cancelNotes
                  /\ (txStored[i].state = "saved" => txStored'[i] = txStored[i])
                  /\ (txRet'.op \in {"cancel", "complete"} /\ txRet'.id = i)
                        => txRet'.outcome = "throws")]_vars

\* a stored pending transaction was cancelled, and a later cancel or complete
\* on it threw
C20_Witness ==
    /\ txRet.op \in {"cancel", "complete"}
    /\ txRet.outcome = "throws"
    /\ tx[txRet.id].status = "cancelled"
    /\ tx[txRet.id].cancelNotes = 1
    /\ txStored[txRet.id].status = "cancelled"

\* C17: a session created through POST /sessions can be started through
\* POST /sessions/{sessionId}/start: the request reaches a handler that starts
\* the session and answers with it.  The router registers no such handler, so
\* the request is answered 404 and the session stays as created.
C17_CreatedSessionCanBeStarted ==
    (pret.route = "POST /sessions/:sessionId/start" /\ pret.before = "created")
        => (pret.status = 200 /\ psessions[pret.sessionId] = "started")

\* C18: the local-time day window that selects the due tasks and the UTC date
\* key of the already-rewarded check denote the same day: of two evaluations
\* inside one task-day window the second recognises the reward of the first,
\* so no two task_completion rewards fall into one local day.  With a local
\* offset, two instants of one local day can lie on two UTC dates.
C18_OneRewardPerTaskDay ==
    \A i, j \in 1..Len(dailyRewards) :
        (/\ i # j
         /\ dailyRewards[i].type = "task_completion"
         /\ dailyRewards[j].type = "task_completion")
            => LocalDay(dailyRewards[i].date, tz) # LocalDay(dailyRewards[j].date, tz)

\* C19: a user whose isPremium is false never receives a task-completion
\* reward: the check returns null and leaves coins and dailyRewards as they were.
C19_FreeUserNeverRewarded ==
    ~isPremium =>
        /\ coins = InitCoins
        /\ dailyRewards = <<>>
        /\ \A p \in Procs : ret[p].kind # "rewarded" /\ pc[p] \notin {"findTasks", "save"}

\* a free user's day is complete, and a check of it has returned null
C19_Witness ==
    /\ ~isPremium
    /\ \E id \in TaskIds : tasks[id].exists
    /\ \A id \in TaskIds : tasks[id].exists => tasks[id].isCompleted
    /\ \E p \in Procs :
          /\ pc[p] = "returned"
          /\ req[p].userId = StoredUser
          /\ ret[p].kind = "null"
          /\ TodayTasks(now) # {}
          /\ AllCompleted(TodayTasks(now))

\* C21: completeTask on a task that is already completed fails with
\* '이미 완료된 Task입니다.' and changes nothing: the completion fields are not
\* rewritten and no growth album is created, also when growthAlbumData is given.
C21_CompletedTaskNotCompletedAgain ==
    [][\A k \in TaskKeys :
          (/\ tret'.op = "completeTask"
           /\ tret'.taskId = k
           /\ store[k].state = "stored"
           /\ store[k].userId = tret'.userId
           /\ store[k].isCompleted)
              => (/\ tret'.outcome = "already_completed"
                  /\ store' = store
                  /\ albums' = albums)]_vars

\* a completed task with the growth album flag was completed again with
\* growthAlbumData, and the call was refused
C21_Witness ==
    /\ tret.op = "completeTask"
    /\ tret.outcome = "already_completed"
    /\ tret.growthAlbumData
    /\ store[tret.taskId].isCompleted
    /\ store[tret.taskId].hasGrowthAlbum
    /\ AlbumCount + 1 \in AlbumCounts

\* C22: the userId of a task never changes after its creation, whatever
\* updateData updateTask is given.  updateTask copies every key of updateData
\* onto the task, userId included.
C22_OwnerNeverChanges ==
    [][\A k \in TaskKeys :
          (store[k].state = "stored" /\ store'[k].state = "stored")
              => store'[k].userId = store[k].userId]_vars

\* C23: in every state reached through toggleTaskCompletion and updateTask a
\* task has completedAt set exactly when isCompleted is true.  updateTask sets
\* isCompleted from updateData and leaves completedAt as it was.
C23_CompletedAtIffCompleted ==
    \A k \in TaskKeys :
        store[k].state = "stored" => (store[k].completedAt <=> store[k].isCompleted)

\* C24: after deleteTask succeeds no growth album of the deleted task remains.
\* deleteTask removes the albums only when task.hasGrowthAlbum is true, and
\* updateTask can clear that flag on a task that has albums.
C24_DeleteTakesAlbums ==
    \A k \in TaskKeys : store[k].state = "deleted" => albums[k] = 0

\* C25: after any sequence or interleaving of createCategory calls of one user
\* no two active categories have the same trimmed name.  Two calls with the
\* same name can both pass the duplicate check before either saves.
C25_UniqueActiveNames ==
    \A i, j \in 1..Len(cats) :
        (i # j /\ cats[i].isActive /\ cats[j].isActive) => cats[i].name # cats[j].name

\* C26: generateRoutineRecommendation never rejects for a userData with stats
\* and patterns: without initialisation or when the OpenAI call fails it
\* returns the rule-based fallback (success true, type 'rule_based'), and
\* 'ai_generated' is returned only when the service is initialised and the
\* call succeeded.
C26_RecommendationNeverRejects ==
    /\ aiRet.outcome # "rejected"
    /\ aiRet.outcome = "returned" =>
          /\ aiRet.success
          /\ (~aiRet.initialized \/ aiRet.call # "ok") => aiRet.type = "rule_based"
          /\ aiRet.type = "ai_generated" => (aiRet.initialized /\ aiRet.call = "ok")

\* the service is initialised, the OpenAI call failed, the fallback was returned
C26_Witness ==
    /\ aiState = "initialized"
    /\ aiRet.initialized
    /\ aiRet.call \in {"rejects", "malformed"}
    /\ aiRet.outcome = "returned"
    /\ aiRet.type = "rule_based"

\* C28: getWeeklyStats.bestDay is an element of weeklyData whose minutes are
\* maximal over the week, and of several days with the maximal minutes it is
\* the earliest in weeklyData order.
C28_BestDayIsEarliestMaximum ==
    weeklyRet # NoWeekly =>
        \E i \in 1..Len(weeklyRet.weeklyData) :
            /\ weeklyRet.weeklyData[i] = weeklyRet.bestDay
            /\ \A j \in 1..Len(weeklyRet.weeklyData) :
                  weeklyRet.weeklyData[j].minutes <= weeklyRet.bestDay.minutes
            /\ \A j \in 1..(i - 1) :
                  weeklyRet.weeklyData[j].minutes < weeklyRet.bestDay.minutes

\* a week whose maximum is shared by two days, neither the first of the week
C28_Witness ==
    /\ weeklyRet # NoWeekly
    /\ weeklyRet.bestDay.day > 1
    /\ weeklyRet.bestDay.minutes > 0
    /\ \E j \in 1..Len(weeklyRet.weeklyData) :
          /\ j > weeklyRet.bestDay.day
          /\ weeklyRet.weeklyData[j].minutes = weeklyRet.bestDay.minutes

\* C27: when PATCH /:taskId/complete answers with a failure status, the stored
\* completion state of the task (isCompleted, completedAt) is the one it had
\* before the request: the request's toggle has not changed it. Requests run
\* one at a time in SpecSeq, so nothing else writes the task meanwhile.
C27_FailureLeavesCompletionState ==
    \A p \in Procs :
        (pc[p] = "returned" /\ req[p].kind = "route" /\ ret[p].status = 500)
            => ~req[p].toggled

====
